---- MODULE Spec2Model ----
(***************************************************************************)
(* Model of src/print.rs of jfn: the JSON, YAML and TOML pretty-printers   *)
(* writing a serde_json Value to a termcolor sink.                         *)
(*                                                                         *)
(* Text is modelled character by character: a text is a sequence of        *)
(* one-character strings.  A character outside the TLA+ string syntax is   *)
(* named by its code point ("U+00E9").                                     *)
(***************************************************************************)
EXTENDS Integers, Sequences, FiniteSets, TLC

VARIABLES
    fmt,        \* which entry point runs: "json", "yaml" or "toml"
    value,      \* the parsed serde_json Value handed to the renderer
    terminal,   \* io::stdout().is_terminal()
    todo,       \* the sink calls the renderer has still to make, in order
    color,      \* the sink's current ColorSpec (NoColor after reset)
    out,        \* the characters written to the sink so far
    status      \* "running", "ok", "err_null" (bail!) or "err_io"

vars == <<fmt, value, terminal, todo, color, out, status>>

----------------------------------------------------------------------------
\* Bounds of the model.

\* Largest number of nodes (scalars and containers) of a generated value tree.
MaxNodes == 4

\* Largest number of characters after the first one in a generated string.
MaxTail == 2

----------------------------------------------------------------------------
\* Characters.

TAB_WIDTH == 2

\* The printable ASCII characters, in code point order from 0x20 to 0x7e.
Ascii ==
    <<" ", "!", "\"", "#", "$", "%", "&", "'", "(", ")", "*", "+", ",", "-", ".", "/",
      "0", "1", "2", "3", "4", "5", "6", "7", "8", "9", ":", ";", "<", "=", ">", "?",
      "@", "A", "B", "C", "D", "E", "F", "G", "H", "I", "J", "K", "L", "M", "N", "O",
      "P", "Q", "R", "S", "T", "U", "V", "W", "X", "Y", "Z", "[", "\\", "]", "^", "_",
      "U+0060", "a", "b", "c", "d", "e", "f", "g", "h", "i", "j", "k", "l", "m", "n", "o",
      "p", "q", "r", "s", "t", "u", "v", "w", "x", "y", "z", "{", "|", "}", "~">>

\* The code point of a character.
Code(c) ==
    CASE c = "\t" -> 9
      [] c = "\n" -> 10
      [] c = "\r" -> 13
      [] c = "U+007F" -> 127
      [] c = "U+00A0" -> 160
      [] c = "U+00E9" -> 233
      [] OTHER -> 31 + (CHOOSE i \in 1..Len(Ascii) : Ascii[i] = c)

\* The character of a printable ASCII code point.
Chr(n) == Ascii[n - 31]

\* char::is_whitespace: the Unicode White_Space code points (those below 0x100).
is_whitespace(c) == Code(c) \in (9..13) \cup {32, 133, 160}

\* char::is_ascii_digit
is_ascii_digit(c) == Code(c) \in 48..57

\* " ".repeat(n)
RECURSIVE repeat(_)
repeat(n) == IF n <= 0 THEN <<>> ELSE <<" ">> \o repeat(n - 1)

\* str::contains(pat) for a non-empty pattern
contains(s, pat) ==
    \E i \in 1..(Len(s) - Len(pat) + 1) : SubSeq(s, i, i + Len(pat) - 1) = pat

\* The concatenation of a sequence of sequences.
RECURSIVE Flatten(_)
Flatten(ss) == IF ss = <<>> THEN <<>> ELSE Head(ss) \o Flatten(Tail(ss))

----------------------------------------------------------------------------
\* serde_json::Value

Null == [tag |-> "Null"]
Bool(b) == [tag |-> "Bool", b |-> b]
Number(n) == [tag |-> "Number", n |-> n]
String(s) == [tag |-> "String", s |-> s]
Array(arr) == [tag |-> "Array", arr |-> arr]
\* obj is the sequence of <<key, value>> pairs that obj.iter() yields
Object(obj) == [tag |-> "Object", obj |-> obj]

is_null(v) == v.tag = "Null"
is_object(v) == v.tag = "Object"

\* The decimal text of a natural number.
RECURSIVE Digits(_)
Digits(n) == IF n < 10 THEN <<Chr(48 + n)>> ELSE Digits(n \div 10) \o <<Chr(48 + (n % 10))>>

\* Display of a serde_json Number (integers)
NumberText(n) == IF n < 0 THEN <<"-">> \o Digits(0 - n) ELSE Digits(n)

\* The hexadecimal digit of 0..15, as serde_json writes it in \u00XX.
Hex(d) == IF d < 10 THEN Chr(48 + d) ELSE Chr(97 + d - 10)

\* serde_json's escape of one character inside a JSON string
Escape(c) ==
    CASE c = "\"" -> <<"\\", "\"">>
      [] c = "\\" -> <<"\\", "\\">>
      [] c = "\n" -> <<"\\", "n">>
      [] c = "\t" -> <<"\\", "t">>
      [] c = "\r" -> <<"\\", "r">>
      [] OTHER -> IF Code(c) < 32
                  THEN <<"\\", "u", "0", "0", Hex(Code(c) \div 16), Hex(Code(c) % 16)>>
                  ELSE <<c>>

\* quote: Value::String(s).to_string()
quote(s) == <<"\"">> \o Flatten([i \in 1..Len(s) |-> Escape(s[i])]) \o <<"\"">>

\* Display of a scalar Value ("{value}")
Display(v) ==
    CASE v.tag = "Null" -> <<"n", "u", "l", "l">>
      [] v.tag = "Bool" -> IF v.b THEN <<"t", "r", "u", "e">> ELSE <<"f", "a", "l", "s", "e">>
      [] v.tag = "Number" -> NumberText(v.n)
      [] v.tag = "String" -> quote(v.s)

----------------------------------------------------------------------------
\* The sink (termcolor::WriteColor) and the calls made on it.

NoColor == [fg |-> "None", bold |-> FALSE]
normal(c) == [fg |-> c, bold |-> FALSE]
bold(c) == [fg |-> c, bold |-> TRUE]
KEY == normal("Blue")
STR == normal("Green")
HEADER == bold("Blue")

\* write!(w, ...) outside write_with_color!
Plain(text) == <<[op |-> "write", text |-> text, tagged |-> FALSE]>>

\* bail!("can't convert null to TOML")
BailNull == <<[op |-> "bail"]>>

\* write_with_color!(dst, color, ...) with the reset left out
write_without_reset(c, text) ==
    << [op |-> "set_color", color |-> c],
       [op |-> "write", text |-> text, tagged |-> TRUE] >>

\* write_with_color!(dst, color, ...)
write_with_color(c, text) ==
    << [op |-> "set_color", color |-> c],
       [op |-> "write", text |-> text, tagged |-> TRUE],
       [op |-> "reset"] >>

\* color_choice
color_choice(t) == IF t THEN "Auto" ELSE "Never"

----------------------------------------------------------------------------
\* The JSON renderer.

\* write_json as the claimed multi-line form: the closing newline and indent are
\* written for an empty container too
RECURSIVE write_json_multiline(_, _)
write_json_multiline(depth, v) ==
    CASE v.tag = "Array" ->
           Plain(<<"[">>)
           \o Flatten([i \in 1..Len(v.arr) |->
                 Plain(<<"\n">> \o repeat((depth + 1) * TAB_WIDTH))
                 \o write_json_multiline(depth + 1, v.arr[i])
                 \o (IF i = Len(v.arr) THEN <<>> ELSE Plain(<<",">>))])
           \o Plain(<<"\n">> \o repeat(depth * TAB_WIDTH))
           \o Plain(<<"]">>)
      [] v.tag = "Object" ->
           Plain(<<"{">>)
           \o Flatten([i \in 1..Len(v.obj) |->
                 Plain(<<"\n">> \o repeat((depth + 1) * TAB_WIDTH))
                 \o write_with_color(KEY, quote(v.obj[i][1]))
                 \o Plain(<<":", " ">>)
                 \o write_json_multiline(depth + 1, v.obj[i][2])
                 \o (IF i = Len(v.obj) THEN <<>> ELSE Plain(<<",">>))])
           \o Plain(<<"\n">> \o repeat(depth * TAB_WIDTH))
           \o Plain(<<"}">>)
      [] v.tag = "String" -> write_with_color(STR, Display(v))
      [] OTHER -> Plain(Display(v))

\* write_json: the sink calls it makes for a value at a depth
RECURSIVE write_json(_, _)
write_json(depth, v) ==
    CASE v.tag = "Array" ->
           Plain(<<"[">>)
           \o Flatten([i \in 1..Len(v.arr) |->
                 Plain(<<"\n">> \o repeat((depth + 1) * TAB_WIDTH))
                 \o write_json(depth + 1, v.arr[i])
                 \o (IF i = Len(v.arr)
                     THEN Plain(<<"\n">> \o repeat(depth * TAB_WIDTH))
                     ELSE Plain(<<",">>))])
           \o Plain(<<"]">>)
      [] v.tag = "Object" ->
           Plain(<<"{">>)
           \o Flatten([i \in 1..Len(v.obj) |->
                 Plain(<<"\n">> \o repeat((depth + 1) * TAB_WIDTH))
                 \o write_with_color(KEY, quote(v.obj[i][1]))
                 \o Plain(<<":", " ">>)
                 \o write_json(depth + 1, v.obj[i][2])
                 \o (IF i = Len(v.obj)
                     THEN Plain(<<"\n">> \o repeat(depth * TAB_WIDTH))
                     ELSE Plain(<<",">>))])
           \o Plain(<<"}">>)
      [] v.tag = "String" -> write_with_color(STR, Display(v))
      [] OTHER -> Plain(Display(v))

----------------------------------------------------------------------------
\* The YAML renderer.

\* Regex ^[\u{20}-\u{7e}]+$
IsPrintable(s) == Len(s) > 0 /\ \A i \in 1..Len(s) : Code(s[i]) \in 32..126

\* Regex ^[\u{20}-\u{7e}\n]+$
IsPrintableOrNewline(s) ==
    Len(s) > 0 /\ \A i \in 1..Len(s) : Code(s[i]) \in 32..126 \/ s[i] = "\n"

\* The characters of "-?:,[]{}#&*!|>'\"%@`+."
Indicators ==
    {"-", "?", ":", ",", "[", "]", "{", "}", "#", "&", "*", "!", "|", ">", "'", "\"",
     "%", "@", "U+0060", "+", "."}

\* the starts_with closure without the digit test
UnsafeStartNoDigit(c) == is_whitespace(c) \/ c \in Indicators

\* the closure of yaml_flow_string's starts_with
UnsafeStart(c) == is_whitespace(c) \/ is_ascii_digit(c) \/ c \in Indicators

\* yaml_flow_string
yaml_flow_string(s) ==
    IF /\ IsPrintable(s)
       /\ ~(Len(s) > 0 /\ UnsafeStart(s[1]))
       /\ ~contains(s, <<":", " ">>)
       /\ ~contains(s, <<" ", "#">>)
       /\ ~(Len(s) > 0 /\ is_whitespace(s[Len(s)]))
    THEN s
    ELSE quote(s)

\* str::lines: the pieces between newlines, a final empty piece left out, a
\* carriage return before the newline stripped
RECURSIVE lines(_)
lines(s) ==
    IF s = <<>> THEN <<>>
    ELSE IF \E i \in 1..Len(s) : s[i] = "\n"
         THEN LET i == CHOOSE j \in 1..Len(s) :
                            s[j] = "\n" /\ \A k \in 1..(j - 1) : s[k] # "\n"
                  raw == SubSeq(s, 1, i - 1)
                  line == IF Len(raw) > 0 /\ raw[Len(raw)] = "\r"
                          THEN SubSeq(raw, 1, Len(raw) - 1) ELSE raw
              IN  <<line>> \o lines(SubSeq(s, i + 1, Len(s)))
         ELSE <<s>>

\* yaml_block_string with the indent indicator decided by a leading space only
yaml_block_string_space_only(depth, s) ==
    <<"|">>
    \o (IF Len(s) > 0 /\ s[1] = " " THEN NumberText(TAB_WIDTH) ELSE <<>>)
    \o Flatten([i \in 1..Len(lines(s)) |->
           <<"\n">> \o repeat(depth * TAB_WIDTH) \o lines(s)[i]])

\* yaml_block_string
yaml_block_string(depth, s) ==
    <<"|">>
    \o (IF Len(s) > 0 /\ is_whitespace(s[1]) THEN NumberText(TAB_WIDTH) ELSE <<>>)
    \o Flatten([i \in 1..Len(lines(s)) |->
           <<"\n">> \o repeat(depth * TAB_WIDTH) \o lines(s)[i]])

\* yaml_string
yaml_string(depth, s) ==
    IF contains(s, <<"\n">>) /\ IsPrintableOrNewline(s)
    THEN yaml_block_string(depth, s)
    ELSE yaml_flow_string(s)

\* write_yaml: the sink calls it makes
RECURSIVE write_yaml(_, _, _)
write_yaml(depth, obj_value, v) ==
    CASE v.tag = "Array" ->
           IF v.arr = <<>>
           THEN (IF obj_value THEN Plain(<<" ">>) ELSE <<>>) \o Plain(<<"[", "]">>)
           ELSE Flatten([i \in 1..Len(v.arr) |->
                   (IF i > 1 \/ obj_value
                    THEN Plain(<<"\n">> \o repeat(depth * TAB_WIDTH)) ELSE <<>>)
                   \o Plain(<<"-", " ">>)
                   \o write_yaml(depth + 1, FALSE, v.arr[i])])
      [] v.tag = "Object" ->
           IF v.obj = <<>>
           THEN (IF obj_value THEN Plain(<<" ">>) ELSE <<>>) \o Plain(<<"{", "}">>)
           ELSE Flatten([i \in 1..Len(v.obj) |->
                   (IF i > 1 \/ obj_value
                    THEN Plain(<<"\n">> \o repeat(depth * TAB_WIDTH)) ELSE <<>>)
                   \o write_with_color(KEY, yaml_flow_string(v.obj[i][1]))
                   \o Plain(<<":">>)
                   \o write_yaml(depth + 1, TRUE, v.obj[i][2])])
      [] v.tag = "String" ->
           (IF obj_value THEN Plain(<<" ">>) ELSE <<>>)
           \o write_with_color(STR, yaml_string(depth, v.s))
      [] OTHER ->
           (IF obj_value THEN Plain(<<" ">>) ELSE <<>>) \o Plain(Display(v))

----------------------------------------------------------------------------
\* The TOML renderer.

\* Regex ^[A-Za-z0-9_\-]+$
IsBareKey(s) ==
    /\ Len(s) > 0
    /\ \A i \in 1..Len(s) :
          \/ Code(s[i]) \in 65..90
          \/ Code(s[i]) \in 97..122
          \/ Code(s[i]) \in 48..57
          \/ s[i] \in {"_", "-"}

\* toml_key
toml_key(s) == IF IsBareKey(s) THEN s ELSE quote(s)

\* is_object_array that also asks for an element
is_object_array_nonempty(v) ==
    /\ v.tag = "Array"
    /\ v.arr # <<>>
    /\ \A i \in 1..Len(v.arr) : is_object(v.arr[i])

\* write_toml::is_object_array
is_object_array(v) ==
    /\ v.tag = "Array"
    /\ \A i \in 1..Len(v.arr) : is_object(v.arr[i])

\* write_toml::should_nest
should_nest(v) == is_object(v) \/ is_object_array(v)

\* the array filter that keeps every element
KeepAll(v) == TRUE

\* the filter closure of write_toml_inline's Array arm: |v| !v.is_null()
NotNull(v) == ~is_null(v)

\* the filter closure |(_, v)| !v.is_null() of both Object arms
NotNullMember(m) == ~is_null(m[2])

\* the filter closure |(_, v)| !should_nest(v)
FlatMember(m) == ~should_nest(m[2])

\* the filter closure |(_, v)| should_nest(v)
NestedMember(m) == should_nest(m[2])

\* the header condition that holds of every table
AlwaysHeader(obj) == TRUE

\* the header condition obj.iter().any(|(_, v)| !should_nest(v)), on the
\* members of the nested object as they are (nulls included)
HasFlatMember(obj) == \E i \in 1..Len(obj) : ~should_nest(obj[i][2])

\* write_toml and write_toml_inline: the sink calls they make
RECURSIVE write_toml(_, _), write_toml_inline(_)
write_toml_inline(v) ==
    CASE v.tag = "Array" ->
           LET arr == SelectSeq(v.arr, NotNull)
           IN  Plain(<<"[">>)
               \o Flatten([i \in 1..Len(arr) |->
                     write_toml_inline(arr[i])
                     \o (IF i # Len(arr) THEN Plain(<<",", " ">>) ELSE <<>>)])
               \o Plain(<<"]">>)
      [] v.tag = "Object" ->
           LET obj == SelectSeq(v.obj, NotNullMember)
           IN  Plain(<<"{">>)
               \o Flatten([i \in 1..Len(obj) |->
                     write_with_color(KEY, <<" ">> \o toml_key(obj[i][1]))
                     \o Plain(<<" ", "=", " ">>)
                     \o write_toml_inline(obj[i][2])
                     \o (IF i = Len(obj) THEN Plain(<<" ">>) ELSE Plain(<<",">>))])
               \o Plain(<<"}">>)
      [] OTHER -> write_toml(<<>>, v)

write_toml(context, v) ==
    CASE v.tag = "Array" -> write_toml_inline(v)
      [] v.tag = "Object" ->
           LET obj == SelectSeq(v.obj, NotNullMember)
               flat == SelectSeq(obj, FlatMember)
               nested == SelectSeq(obj, NestedMember)
           IN  Flatten([i \in 1..Len(flat) |->
                   write_with_color(KEY, toml_key(flat[i][1]))
                   \o Plain(<<" ", "=", " ">>)
                   \o write_toml(context, flat[i][2])
                   \o (IF i # Len(flat) THEN Plain(<<"\n">>) ELSE <<>>)])
               \o
               Flatten([i \in 1..Len(nested) |->
                   LET k == context \o toml_key(nested[i][1])
                       nv == nested[i][2]
                   IN  (IF flat # <<>> \/ i > 1 THEN Plain(<<"\n", "\n">>) ELSE <<>>)
                       \o
                       (IF nv.tag = "Object"
                        THEN (IF HasFlatMember(nv.obj)
                              THEN write_with_color(HEADER, <<"[">> \o k \o <<"]", "\n">>)
                              ELSE <<>>)
                             \o write_toml(k \o <<".">>, nv)
                        ELSE Flatten([j \in 1..Len(nv.arr) |->
                                (IF j > 1 THEN Plain(<<"\n", "\n">>) ELSE <<>>)
                                \o write_with_color(HEADER, <<"[", "[">> \o k \o <<"]", "]">>)
                                \o (IF nv.arr[j].obj # <<>> THEN Plain(<<"\n">>) ELSE <<>>)
                                \o write_toml(k \o <<".">>, nv.arr[j])]))])
      [] v.tag = "String" -> write_with_color(STR, Display(v))
      [] v.tag = "Null" -> BailNull
      [] OTHER -> Plain(Display(v))

----------------------------------------------------------------------------
\* The entry points json, yaml and toml: the render, then writeln!.

Calls(f, v) ==
    (CASE f = "json" -> write_json(0, v)
       [] f = "yaml" -> write_yaml(0, FALSE, v)
       [] f = "toml" -> write_toml(<<>>, v))
    \o Plain(<<"\n">>)

----------------------------------------------------------------------------
\* The values the renderers are run on.

Scalars == {Null, Number(1), String(<<"s">>)}

Keys == {<<"a">>, <<"b">>}

\* The sequences of n distinct keys.
KeySeqs(n) == {ks \in [1..n -> Keys] : \A i, j \in 1..n : ks[i] = ks[j] => i = j}

\* TreesN(n): the values of exactly n nodes; SeqsN(n): the non-empty sequences
\* of values of n nodes in all.
RECURSIVE TreesN(_), SeqsN(_)
TreesN(n) ==
    IF n = 1
    THEN Scalars \cup {Array(<<>>), Object(<<>>)}
    ELSE {Array(f) : f \in SeqsN(n - 1)}
         \cup UNION {{Object([i \in 1..Len(f) |-> <<ks[i], f[i]>>]) : ks \in KeySeqs(Len(f))}
                     : f \in SeqsN(n - 1)}

SeqsN(n) ==
    {<<t>> : t \in TreesN(n)}
    \cup UNION {{<<t>> \o r : t \in TreesN(k), r \in SeqsN(n - k)} : k \in 1..(n - 1)}

\* The values of at most n nodes.
TreesUpTo(n) == UNION {TreesN(k) : k \in 1..n}

\* write_toml, whose layout depends on three levels of nesting, is run on the
\* values of at most MaxNodes nodes, write_json and write_yaml on those of one
\* node less.
Trees(f) == TreesUpTo(IF f = "toml" THEN MaxNodes ELSE MaxNodes - 1)

\* First characters of the generated strings: every indicator, and one character
\* or more of every other class the renderers tell apart.
FirstChars ==
    Indicators \cup {" ", "0", "9", "a", "Z", "_", "~", "\\", "\n", "\t", "U+00A0", "U+00E9"}

\* Characters of the rest of a generated string.
InnerChars == {"a", " ", ":", "#", "\n", "U+00E9"}

Tails == UNION {[1..n -> InnerChars] : n \in 0..MaxTail}

SampleStrings ==
    { <<"o", "k">>, <<"h", "e", "l", "l", "o">>, <<"3", "a", "b", "c">>,
      <<"a", "b", "c", "1", "2", "3", "x">>, <<"t", "r", "u", "e", "-", "i", "s", "h">>,
      <<"t", "r", "u", "e">>, <<"f", "a", "l", "s", "e">>, <<"n", "u", "l", "l">>,
      <<"1", "2">>, <<"-", "1">> }

Strings == {<<>>} \cup {<<c>> \o t : c \in FirstChars, t \in Tails} \cup SampleStrings

NonStringScalars == {Null, Bool(TRUE), Bool(FALSE)} \cup {Number(n) : n \in {-1, 0, 1, 12}}

\* A value as the only member of a mapping, and as the only element of an array.
Member(k, v) == Object(<< <<k, v>> >>)
Element(v) == Array(<<v>>)

\* The examples of the documentation.
NullAndOne == Object(<< <<<<"a">>, Null>>, <<<<"b">>, Number(1)>> >>)
OuterInner ==
    Member(<<"o", "u", "t", "e", "r">>,
           Member(<<"i", "n", "n", "e", "r">>, Member(<<"z">>, Number(1))))
OneAndTable == Array(<<Number(1), Member(<<"a">>, Number(1))>>)

Examples ==
    {NullAndOne, OuterInner, OneAndTable}
    \cup NonStringScalars
    \cup {Member(<<"k">>, v) : v \in NonStringScalars}

StringValues ==
    {String(s) : s \in Strings}
    \cup {Member(<<"k">>, String(s)) : s \in Strings}
    \cup {Element(String(s)) : s \in Strings}
    \cup {Member(s, Number(1)) : s \in Strings}

Formats == {"json", "yaml", "toml"}

Inputs(f) == Trees(f) \cup Examples \cup (IF f = "yaml" THEN StringValues ELSE {})

----------------------------------------------------------------------------
\* The run of one entry point, one sink call at a time.

Init ==
    /\ fmt \in Formats
    /\ value \in Inputs(fmt)
    /\ terminal \in BOOLEAN
    /\ todo = Calls(fmt, value)
    /\ color = NoColor
    /\ out = <<>>
    /\ status = "running"

Running == status = "running" /\ todo # <<>>

\* WriteColor::set_color: a sink built with ColorChoice::Never ignores it
SetColor ==
    /\ Running
    /\ Head(todo).op = "set_color"
    /\ color' = IF color_choice(terminal) = "Auto" THEN Head(todo).color ELSE color
    /\ todo' = Tail(todo)
    /\ UNCHANGED <<fmt, value, terminal, out, status>>

\* write!
Write ==
    /\ Running
    /\ Head(todo).op = "write"
    /\ out' = out \o Head(todo).text
    /\ todo' = Tail(todo)
    /\ UNCHANGED <<fmt, value, terminal, color, status>>

\* WriteColor::reset
Reset ==
    /\ Running
    /\ Head(todo).op = "reset"
    /\ color' = NoColor
    /\ todo' = Tail(todo)
    /\ UNCHANGED <<fmt, value, terminal, out, status>>

\* bail!: the error is returned through every ? up to the caller
Bail ==
    /\ Running
    /\ Head(todo).op = "bail"
    /\ status' = "err_null"
    /\ todo' = <<>>
    /\ UNCHANGED <<fmt, value, terminal, color, out>>

\* a sink call fails: the error is returned through every ? up to the caller
IoFail ==
    /\ Running
    /\ Head(todo).op \in {"set_color", "write", "reset"}
    /\ status' = "err_io"
    /\ todo' = <<>>
    /\ UNCHANGED <<fmt, value, terminal, color, out>>

\* Ok(())
Return ==
    /\ status = "running"
    /\ todo = <<>>
    /\ status' = "ok"
    /\ UNCHANGED <<fmt, value, terminal, todo, color, out>>

Next == SetColor \/ Write \/ Reset \/ Bail \/ IoFail \/ Return

Spec == Init /\ [][Next]_vars

\* The text a sequence of sink calls writes when none fails.
Text(calls) ==
    Flatten([i \in 1..Len(calls) |-> IF calls[i].op = "write" THEN calls[i].text ELSE <<>>])

----------------------------------------------------------------------------
\* Vocabulary of the properties.

\* The text an entry point writes for a value when no sink call fails.
Rendered(f, v) == Text(Calls(f, v))

Finished(f) == fmt = f /\ status = "ok"

\* The number of places of a text where a pattern starts.
Count(s, pat) ==
    Cardinality({i \in 1..(Len(s) - Len(pat) + 1) : SubSeq(s, i, i + Len(pat) - 1) = pat})

\* A text begins with a pattern.
StartsWith(s, pat) == Len(s) >= Len(pat) /\ SubSeq(s, 1, Len(pat)) = pat

\* A pattern starts a line of a text.
HasLineStart(s, pat) == StartsWith(s, pat) \/ contains(s, <<"\n">> \o pat)

\* The children of a container value.
Children(v) ==
    CASE v.tag = "Array" -> v.arr
      [] v.tag = "Object" -> [i \in 1..Len(v.obj) |-> v.obj[i][2]]
      [] OTHER -> <<>>

RECURSIVE Sum(_)
Sum(ns) == IF ns = <<>> THEN 0 ELSE Head(ns) + Sum(Tail(ns))

\* The number of empty containers of a tag in a value.
RECURSIVE CountEmpty(_, _)
CountEmpty(tag, v) ==
    (IF v.tag = tag /\ Children(v) = <<>> THEN 1 ELSE 0)
    + Sum([i \in 1..Len(Children(v)) |-> CountEmpty(tag, Children(v)[i])])

AllObjects(v) == v.tag = "Array" /\ \A i \in 1..Len(v.arr) : v.arr[i].tag = "Object"

\* A value that write_toml puts under a header of its own.
IsNestedValue(v) == v.tag = "Object" \/ AllObjects(v)

----------------------------------------------------------------------------
\* C1 as stated: an empty array or object is rendered by write_json in the
\* multi-line form, the opening bracket, a newline and the indent, then the
\* closing bracket, and never as the compact [] or {}.
C1_EmptyContainerMultiline ==
    Finished("json") =>
        /\ ~contains(out, <<"[", "]">>)
        /\ ~contains(out, <<"{", "}">>)
        /\ (value = Array(<<>>) => out = <<"[", "\n", "]", "\n">>)
        /\ (value = Object(<<>>) => out = <<"{", "\n", "}", "\n">>)

\* C1 as amended: write_json renders every empty array as the compact [] and
\* every empty object as the compact {}, at every depth: the output holds one
\* [] per empty array and one {} per empty object of the value, and no bracket
\* pair with only a newline and an indent between them.
C1_EmptyContainerCompact ==
    Finished("json") =>
        /\ Count(out, <<"[", "]">>) = CountEmpty("Array", value)
        /\ Count(out, <<"{", "}">>) = CountEmpty("Object", value)
        /\ \A n \in 0..(TAB_WIDTH * Len(out)) :
              /\ ~contains(out, <<"[", "\n">> \o repeat(n) \o <<"]">>)
              /\ ~contains(out, <<"{", "\n">> \o repeat(n) \o <<"}">>)

\* An empty array rendered at depth 1.
C1_Witness ==
    /\ Finished("json")
    /\ value = Element(Array(<<>>))
    /\ out = <<"[", "\n", " ", " ", "[", "]", "\n", "]", "\n">>

----------------------------------------------------------------------------
\* A value without the null-valued members of its mappings, at every level.
NotNullPair(m) == m[2].tag # "Null"

RECURSIVE StripNulls(_)
StripNulls(v) ==
    CASE v.tag = "Array" -> Array([i \in 1..Len(v.arr) |-> StripNulls(v.arr[i])])
      [] v.tag = "Object" ->
           LET kept == SelectSeq(v.obj, NotNullPair)
           IN  Object([i \in 1..Len(kept) |-> <<kept[i][1], StripNulls(kept[i][2])>>])
      [] OTHER -> v

\* C2: the TOML output for a mapping is the output for the same mapping with
\* every null-valued member removed, at every nesting level: a null member
\* leaves no key, no header and no blank line.
C2_NullsLeaveNoTrace ==
    (Finished("toml") /\ value.tag = "Object") => out = Rendered("toml", StripNulls(value))

----------------------------------------------------------------------------
\* The tables write_toml reaches from a mapping through mappings only, each
\* with its dotted header path.
RECURSIVE Tables(_, _)
Tables(context, v) ==
    UNION {LET path == context \o toml_key(v.obj[i][1])
           IN  IF v.obj[i][2].tag = "Object"
               THEN {<<path, v.obj[i][2]>>} \cup Tables(path \o <<".">>, v.obj[i][2])
               ELSE {}
           : i \in 1..Len(v.obj)}

HeaderLine(path) == <<"[">> \o path \o <<"]", "\n">>

\* C3: the [path] header of a table is written exactly when not every member
\* of the table is itself nested (an object or an array of objects), so a level
\* that only passes through to sub-tables has no header, and
\* {"outer": {"inner": {"z": 1}}} is rendered as [outer.inner] and z = 1.
C3_HeaderUnlessPassThrough ==
    (Finished("toml") /\ value.tag = "Object") =>
        /\ \A t \in Tables(<<>>, value) :
              contains(out, HeaderLine(t[1]))
                  <=> (\E i \in 1..Len(t[2].obj) : ~IsNestedValue(t[2].obj[i][2]))
        /\ (value = OuterInner =>
               out = HeaderLine(<<"o", "u", "t", "e", "r", ".", "i", "n", "n", "e", "r">>)
                     \o <<"z", " ", "=", " ", "1", "\n">>)

\* A chain of two pass-through levels above a table with a flat member.
C3_Witness ==
    /\ Finished("toml")
    /\ value = OuterInner
    /\ Count(out, <<"[">>) = 1

----------------------------------------------------------------------------
\* The lines of a TOML output before its first header or blank line: the flat
\* members of the root mapping.
RECURSIVE FlatLines(_)
FlatLines(ls) ==
    IF ls = <<>> \/ Head(ls) = <<>> \/ Head(ls)[1] = "[" THEN <<>>
    ELSE <<Head(ls)>> \o FlatLines(Tail(ls))

\* The output has the flat line key = text.
HasFlatLine(k, text) ==
    \E i \in 1..Len(FlatLines(lines(out))) :
        FlatLines(lines(out))[i] = toml_key(k) \o <<" ", "=", " ">> \o text

TableArrayHeader(k) == <<"[", "[">> \o toml_key(k) \o <<"]", "]">>

\* The arrays C4 is about: the root value, and the members of the root mapping.
\* Each with its key (none for the root).
ArraysOf(v) ==
    CASE v.tag = "Array" -> {<<"root", <<>>, v>>}
      [] v.tag = "Object" ->
           {<<"member", v.obj[i][1], v.obj[i][2]>> :
               i \in {j \in 1..Len(v.obj) : v.obj[j][2].tag = "Array"}}
      [] OTHER -> {}

\* The array is rendered inline.
RenderedInline(a) ==
    IF a[1] = "root"
    THEN out = Text(write_toml_inline(a[3])) \o <<"\n">>
    ELSE HasFlatLine(a[2], Text(write_toml_inline(a[3])))

\* C4 as stated: an array is rendered as [[section]] entries if and only if
\* every element is an object, and inline otherwise (stated of the arrays that
\* have an element).
C4_TablesIffAllObjects ==
    Finished("toml") =>
        \A a \in ArraysOf(value) :
            a[3].arr # <<>> => (AllObjects(a[3]) <=> ~RenderedInline(a))

\* C4 as amended: an array that is a member of a mapping rendered as a table
\* gets one [[key]] header per element and no key = line if every element is
\* an object (none at all for an empty array), and one inline key = [...] line
\* and no [[key]] header otherwise; the array write_toml is called on directly
\* is rendered inline whatever its elements are.
C4_MemberTablesIffAllObjects ==
    Finished("toml") =>
        \A a \in ArraysOf(value) :
            IF a[1] = "member" /\ AllObjects(a[3])
            THEN /\ Count(out, TableArrayHeader(a[2])) = Len(a[3].arr)
                 /\ ~RenderedInline(a)
            ELSE /\ RenderedInline(a)
                 /\ a[1] = "member" => Count(out, TableArrayHeader(a[2])) = 0

\* An array of tables of two elements.
C4_Witness ==
    /\ Finished("toml")
    /\ \E a \in ArraysOf(value) :
          /\ a[1] = "member" /\ AllObjects(a[3]) /\ Len(a[3].arr) = 2
          /\ Count(out, TableArrayHeader(a[2])) = 2

----------------------------------------------------------------------------
\* The value is a mapping of one member.
IsMember(v) == v.tag = "Object" /\ Len(v.obj) = 1

\* The value is an array of one element.
IsElement(v) == v.tag = "Array" /\ Len(v.arr) = 1

PrintableAscii == {Ascii[i] : i \in 1..Len(Ascii)}

AsciiDigits == {"0", "1", "2", "3", "4", "5", "6", "7", "8", "9"}

Whitespace == {" ", "\t", "\n", "\r", "U+00A0"}

\* The characters C5 lists: - ? : , [ ] { } # & * ! | > ' " % @ ` + .
ListedStarts ==
    {"-", "?", ":", ",", "[", "]", "{", "}", "#", "&", "*", "!", "|", ">", "'", "\"",
     "%", "@", "U+0060", "+", "."}

\* The four conditions of C5.
SafeUnquoted(s) ==
    /\ s # <<>> /\ \A i \in 1..Len(s) : s[i] \in PrintableAscii
    /\ s[1] \notin Whitespace \cup AsciiDigits \cup ListedStarts
    /\ ~contains(s, <<":", " ">>) /\ ~contains(s, <<" ", "#">>)
    /\ s[Len(s)] \notin Whitespace

FlowScalar(s) == IF SafeUnquoted(s) THEN s ELSE quote(s)

\* The value is a string that yaml_string hands to yaml_flow_string.
IsFlowString(v) ==
    v.tag = "String" /\ ~(contains(v.s, <<"\n">>) /\ IsPrintableOrNewline(v.s))

\* C5: a string is written unquoted exactly when it is non-empty printable
\* ASCII, starts with no whitespace, digit or listed character, holds neither
\* ": " nor " #" and ends in no whitespace; in every other case, for a string
\* value as for a mapping key, it is written in JSON double-quoted form.
C5_FlowScalarSafety ==
    Finished("yaml") =>
        /\ IsFlowString(value) => out = FlowScalar(value.s) \o <<"\n">>
        /\ (IsMember(value) /\ value.obj[1][2] = Number(1)) =>
               out = FlowScalar(value.obj[1][1]) \o <<":", " ", "1", "\n">>
        /\ (IsElement(value) /\ IsFlowString(value.arr[1])) =>
               out = <<"-", " ">> \o FlowScalar(value.arr[1].s) \o <<"\n">>

\* The string 3abc is written quoted.
C5_Witness ==
    /\ Finished("yaml")
    /\ value = String(<<"3", "a", "b", "c">>)
    /\ out = <<"\"", "3", "a", "b", "c", "\"", "\n">>

----------------------------------------------------------------------------
\* C6: the toml render fails with the null error exactly when the root value
\* is Null, a Null inside a mapping or an array never fails it, and nothing is
\* written before the failure.
C6_NullErrorOnlyAtRoot ==
    fmt = "toml" =>
        /\ status = "err_null" => (value = Null /\ out = <<>>)
        /\ (value = Null /\ status # "running") => status = "err_null"

\* The render of a root Null has failed.
C6_Witness == fmt = "toml" /\ value = Null /\ status = "err_null" /\ out = <<>>

----------------------------------------------------------------------------
\* C7: every tagged write is set-color, write, reset, in this order; the color
\* of the sink is the reset state whenever a plain write reaches it and when a
\* render has finished successfully.
C7_ColorReset ==
    /\ Running =>
          /\ (Head(todo).op = "write" /\ ~Head(todo).tagged) => color = NoColor
          /\ (Head(todo).op = "write" /\ Head(todo).tagged) =>
                 /\ Len(todo) >= 2 /\ todo[2].op = "reset"
                 /\ terminal => color \in {KEY, STR, HEADER}
          /\ Head(todo).op = "set_color" =>
                 /\ color = NoColor
                 /\ Len(todo) >= 2 /\ todo[2].op = "write" /\ todo[2].tagged
    /\ status = "ok" => color = NoColor

\* A tagged write has been made on a terminal and its reset is due.
C7_Witness ==
    /\ Running /\ terminal
    /\ Head(todo).op = "reset"
    /\ color = STR
    /\ out # <<>>

----------------------------------------------------------------------------
\* The string values C8 is about, each with the depth it is rendered at and
\* the text written before it: the root, the value of the only member of a
\* mapping, the only element of an array.
StringPlaces(v) ==
    CASE v.tag = "String" -> {<<0, <<>>, v.s>>}
      [] IsMember(v) /\ v.obj[1][2].tag = "String" ->
           {<<1, FlowScalar(v.obj[1][1]) \o <<":", " ">>, v.obj[1][2].s>>}
      [] IsElement(v) /\ v.arr[1].tag = "String" -> {<<1, <<"-", " ">>, v.arr[1].s>>}
      [] OTHER -> {}

\* The string has a newline and only printable ASCII and newlines.
IsBlockString(s) ==
    /\ \E i \in 1..Len(s) : s[i] = "\n"
    /\ \A i \in 1..Len(s) : s[i] \in PrintableAscii \cup {"\n"}

\* The lines of a string, each after a newline and the indent of a depth.
IndentedLines(depth, s) ==
    Flatten([i \in 1..Len(lines(s)) |-> <<"\n">> \o repeat(depth * 2) \o lines(s)[i]])

\* The block literal of a string with the indent indicator written or not.
BlockLiteral(depth, s, indicator) ==
    <<"|">> \o (IF indicator THEN <<"2">> ELSE <<>>) \o IndentedLines(depth, s)

\* The first line of the string starts with whitespace.
FirstLineStartsWithSpace(s) ==
    lines(s) # <<>> /\ lines(s)[1] # <<>> /\ lines(s)[1][1] \in Whitespace

\* C8 as stated: a string value is a block literal exactly when it has a
\* newline and only printable ASCII and newlines; the literal is |, the indent
\* indicator exactly when the first line of the string starts with whitespace,
\* then every line indented by depth*2 spaces.
C8_IndicatorIffFirstLineIndented ==
    Finished("yaml") =>
        \A p \in StringPlaces(value) :
            IF IsBlockString(p[3])
            THEN out = p[2] \o BlockLiteral(p[1], p[3], FirstLineStartsWithSpace(p[3]))
                       \o <<"\n">>
            ELSE ~StartsWith(out, p[2] \o <<"|">>)

\* C8 as amended: the indent indicator is written exactly when the first
\* character of the string is whitespace, a space or a newline, so also when
\* the first line is empty; the rest as stated, and a key is never a block
\* literal.
C8_IndicatorIffStartsWithWhitespace ==
    Finished("yaml") =>
        /\ \A p \in StringPlaces(value) :
              IF IsBlockString(p[3])
              THEN out = p[2] \o BlockLiteral(p[1], p[3], p[3][1] \in {" ", "\n"})
                         \o <<"\n">>
              ELSE ~StartsWith(out, p[2] \o <<"|">>)
        /\ IsMember(value) => ~StartsWith(out, <<"|">>)

\* A block literal of a string whose first line is empty, as a mapping value.
C8_Witness ==
    /\ Finished("yaml")
    /\ value = Member(<<"k">>, String(<<"\n", "a">>))
    /\ out = <<"k", ":", " ", "|", "2", "\n", " ", " ", "\n", " ", " ", "a", "\n">>

----------------------------------------------------------------------------
\* The key of a member is in the output: in a key = line, at the end of a
\* header, or as a component of the path of a deeper header.
KeyShown(k) ==
    \/ HasLineStart(out, toml_key(k) \o <<" ", "=", " ">>)
    \/ contains(out, toml_key(k) \o <<"]">>)
    \/ contains(out, toml_key(k) \o <<".">>)

\* The first place of a text where a pattern starts (0 if none).
Place(s, pat) ==
    IF contains(s, pat)
    THEN CHOOSE i \in 1..Len(s) :
            /\ SubSeq(s, i, i + Len(pat) - 1) = pat
            /\ \A j \in 1..(i - 1) : SubSeq(s, j, j + Len(pat) - 1) # pat
    ELSE 0

\* C9: write_toml drops only nulls: every member of the root mapping whose
\* value is not Null has its key in the output, an empty array or object
\* included, and the flat members are written in their input order.
C9_OnlyNullsDropped ==
    (Finished("toml") /\ value.tag = "Object") =>
        /\ \A i \in 1..Len(value.obj) :
              value.obj[i][2] # Null => KeyShown(value.obj[i][1])
        /\ \A i, j \in 1..Len(value.obj) :
              (/\ i < j
               /\ value.obj[i][2] # Null /\ ~IsNestedValue(value.obj[i][2])
               /\ value.obj[j][2] # Null /\ ~IsNestedValue(value.obj[j][2])) =>
                  Place(out, toml_key(value.obj[i][1]) \o <<" ", "=", " ">>)
                      < Place(out, toml_key(value.obj[j][1]) \o <<" ", "=", " ">>)

----------------------------------------------------------------------------
\* The scalar in the place of the string of a value.
InPlaceOf(v, scalar) == IF v.tag = "String" THEN scalar ELSE Member(v.obj[1][1], scalar)

\* C10: write_yaml never writes a string as it writes a Null, a Bool or a
\* Number in the same place.
C10_StringsDistinctFromScalars ==
    (Finished("yaml") /\ StringPlaces(value) # {} /\ ~IsElement(value)) =>
        \A scalar \in NonStringScalars : out # Rendered("yaml", InPlaceOf(value, scalar))

====
